---- MODULE Spec2Model ----
(***************************************************************************)
(* A model of src/doubly_new.rs: the lock-free doubly linked list          *)
(* LinkedList<T> (push_back, push_front, pop_front, len) over the seize    *)
(* reclamation collector.  Every atomic load, compare_exchange, store and  *)
(* fetch_add/fetch_sub of the source is one step of the thread that        *)
(* performs it; the reclamation collector is modelled by its contract: a   *)
(* retired node may be freed once every guard that was active when it was  *)
(* retired has been dropped.  A dereference of a freed node and a read of  *)
(* the sentinel's uninitialised payload are undefined behaviour and are    *)
(* modelled as a choice over all the values such a read can produce.       *)
(***************************************************************************)
EXTENDS Integers, Sequences, FiniteSets, TLC

\* ---------------------------------------------------------------- bounds
\* Number of threads sharing the list.
NumThreads == 2
\* Total number of public operations invoked in one behaviour.
MaxOps == 4

\* Total number of operations invoked in one behaviour of the
\* producers-and-consumer runs (SpecQueue).
MaxQueueOps == 5

\* ------------------------------------------------------------- constants
\* ptr::null_mut()
Null == 0
\* The node allocated by LinkedList::new.
Sentinel == 1
\* Option::None returned by pop_front.
None == -1
\* MaybeUninit::uninit(): the payload slot of the sentinel.
Uninit == -2
\* AtomicUsize is 64 bits wide: four limbs of 16 bits, least significant first.
NumLimbs == 4
LimbBase == 65536

Threads == 1..NumThreads
Nodes == 1..(MaxOps + 1)
\* The values a read of uninitialised or freed payload memory can produce:
\* 0 (the value the test push_front observes) or any payload ever pushed.
GarbageVals == 0..MaxOps

VARIABLES
    head,     \* LinkedList.head
    tail,     \* LinkedList.tail
    len,      \* LinkedList.len, as limbs
    next,     \* Node.next, per node
    prev,     \* Node.prev, per node
    inner,    \* Node.inner, per node
    nAlloc,   \* number of nodes allocated by link_boxed so far
    retired,  \* per node: how many times it was handed to collector.retire
    resv,     \* per node: the guards active at its last retirement, not yet dropped
    freed,    \* nodes whose memory the collector has released
    pc,       \* per thread: position in its current operation
    new,      \* per thread: local `new` of push_back / push_front
    onto,     \* per thread: local `onto` (push) or `head` (pop_front_internal)
    nxt,      \* per thread: local `next` (push_back, pop) or `prev` (push_front)
    data,     \* per thread: local `data` of consume_and_retire
    inv,      \* per thread: number of operations completed when it was invoked
    hist,     \* completed operations, in order of return
    overlap,  \* some operation was invoked while another one was in flight
    nOps      \* number of operations invoked so far

vars == <<head, tail, len, next, prev, inner, nAlloc, retired, resv, freed,
          pc, new, onto, nxt, data, inv, hist, overlap, nOps>>

shared == <<head, tail, len, next, prev, inner, nAlloc, retired, resv, freed>>
locals == <<new, onto, nxt, data>>
meta   == <<inv, hist, overlap, nOps>>

\* ------------------------------------------------------------ the counter
Zero64 == [i \in 1..NumLimbs |-> 0]

RECURSIVE IncFrom(_, _)
IncFrom(l, i) ==
    IF i > NumLimbs THEN l
    ELSE IF l[i] = LimbBase - 1 THEN IncFrom([l EXCEPT ![i] = 0], i + 1)
    ELSE [l EXCEPT ![i] = l[i] + 1]

RECURSIVE DecFrom(_, _)
DecFrom(l, i) ==
    IF i > NumLimbs THEN l
    ELSE IF l[i] = 0 THEN DecFrom([l EXCEPT ![i] = LimbBase - 1], i + 1)
    ELSE [l EXCEPT ![i] = l[i] - 1]

\* len.fetch_add(1): wrapping addition on usize
FetchAdd(l) == IncFrom(l, 1)
\* len.fetch_sub(1): wrapping subtraction on usize
FetchSub(l) == DecFrom(l, 1)
\* the usize holding the small natural number k
Usize(k) == [i \in 1..NumLimbs |-> IF i = 1 THEN k ELSE 0]

\* ------------------------------------------------------------ the memory
Allocated == 1..nAlloc
\* the pointer values a load from freed memory can produce
Ptrs == {Null} \cup Allocated
\* guards currently entered
Active == {t \in Threads : pc[t] # "idle"}

\* Ordering::Acquire load of the pointer field f of node n
LoadPtr(f, n) == IF n \in freed THEN Ptrs ELSE {f[n]}
\* ptr::read of the payload of node n
ReadInner(n) ==
    IF n \in freed \/ inner[n] = Uninit THEN GarbageVals ELSE {inner[n]}
\* whether compare_exchange(expected, _) on field f of node n can succeed
CasCanSucceed(f, n, expected) == n \in freed \/ f[n] = expected
\* whether it can fail
CasCanFail(f, n, expected) == n \in freed \/ f[n] # expected

\* ------------------------------------------------------------------ Init
Init ==
    /\ head = Sentinel
    /\ tail = Sentinel
    /\ len = Zero64
    /\ next = [n \in Nodes |-> Null]
    /\ prev = [n \in Nodes |-> Null]
    /\ inner = [n \in Nodes |-> Uninit]
    /\ nAlloc = 1
    /\ retired = [n \in Nodes |-> 0]
    /\ resv = [n \in Nodes |-> {}]
    /\ freed = {}
    /\ pc = [t \in Threads |-> "idle"]
    /\ new = [t \in Threads |-> Null]
    /\ onto = [t \in Threads |-> Null]
    /\ nxt = [t \in Threads |-> Null]
    /\ data = [t \in Threads |-> None]
    /\ inv = [t \in Threads |-> 0]
    /\ hist = <<>>
    /\ overlap = FALSE
    /\ nOps = 0

\* -------------------------------------------------- invocation and return
\* collector.enter() at the start of a public operation, while fewer than
\* budget operations have been invoked
EnterWithin(t, first, budget) ==
    /\ pc[t] = "idle"
    /\ nOps < budget
    /\ pc' = [pc EXCEPT ![t] = first]
    /\ inv' = [inv EXCEPT ![t] = Len(hist)]
    /\ overlap' = (overlap \/ Active # {})
    /\ nOps' = nOps + 1
    /\ UNCHANGED hist

Enter(t, first) == EnterWithin(t, first, MaxOps)

\* the guard is dropped and the operation returns res
Return(t, op, res) ==
    /\ pc' = [pc EXCEPT ![t] = "idle"]
    /\ hist' = Append(hist, [op |-> op, val |-> res, inv |-> inv[t]])
    /\ resv' = [n \in Nodes |-> resv[n] \ {t}]
    /\ new' = [new EXCEPT ![t] = Null]
    /\ onto' = [onto EXCEPT ![t] = Null]
    /\ nxt' = [nxt EXCEPT ![t] = Null]
    /\ data' = [data EXCEPT ![t] = None]
    /\ UNCHANGED <<inv, overlap, nOps>>

\* collector.link_boxed(Node::new(t)) with the payload v
LinkBoxed(t, v) ==
    /\ nAlloc' = nAlloc + 1
    /\ inner' = [inner EXCEPT ![nAlloc + 1] = v]
    /\ new' = [new EXCEPT ![t] = nAlloc + 1]

\* ------------------------------------------------------------- push_back
\* push_back: enter the guard and allocate the node; the payload is the
\* unique tag of the push (the number of nodes allocated before it)
PushBackInvoke(t) ==
    /\ Enter(t, "pb_load_tail")
    /\ LinkBoxed(t, nAlloc)
    /\ UNCHANGED <<head, tail, len, next, prev, retired, resv, freed, onto, nxt, data>>

\* let tail = guard.protect(&self.tail)
PbLoadTail(t) ==
    /\ pc[t] = "pb_load_tail"
    /\ onto' = [onto EXCEPT ![t] = tail]
    /\ pc' = [pc EXCEPT ![t] = "pb_load_next"]
    /\ UNCHANGED <<shared, new, nxt, data, meta>>

\* let next = guard.protect(&onto.next)
PbLoadNext(t) ==
    /\ pc[t] = "pb_load_next"
    /\ \E v \in LoadPtr(next, onto[t]) :
          /\ nxt' = [nxt EXCEPT ![t] = v]
          /\ pc' = [pc EXCEPT ![t] = IF v # Null THEN "pb_help" ELSE "pb_cas_next"]
    /\ UNCHANGED <<shared, new, onto, data, meta>>

\* next is not null: self.tail.compare_exchange(onto, next); false
PbHelp(t) ==
    /\ pc[t] = "pb_help"
    /\ tail' = IF tail = onto[t] THEN nxt[t] ELSE tail
    /\ pc' = [pc EXCEPT ![t] = "pb_load_tail"]
    /\ UNCHANGED <<head, len, next, prev, inner, nAlloc, retired, resv, freed,
                   locals, meta>>

\* onto.next.compare_exchange(null, new)
PbCasNext(t) ==
    /\ pc[t] = "pb_cas_next"
    /\ \/ /\ CasCanSucceed(next, onto[t], Null)
          /\ next' = [next EXCEPT ![onto[t]] = new[t]]
          /\ pc' = [pc EXCEPT ![t] = "pb_store_prev"]
       \/ /\ CasCanFail(next, onto[t], Null)
          /\ next' = next
          /\ pc' = [pc EXCEPT ![t] = "pb_load_tail"]
    /\ UNCHANGED <<head, tail, len, prev, inner, nAlloc, retired, resv, freed,
                   locals, meta>>

\* new.prev.store(onto)
PbStorePrev(t) ==
    /\ pc[t] = "pb_store_prev"
    /\ prev' = [prev EXCEPT ![new[t]] = onto[t]]
    /\ pc' = [pc EXCEPT ![t] = "pb_cas_tail"]
    /\ UNCHANGED <<head, tail, len, next, inner, nAlloc, retired, resv, freed,
                   locals, meta>>

\* self.tail.compare_exchange(onto, new); true
PbCasTail(t) ==
    /\ pc[t] = "pb_cas_tail"
    /\ tail' = IF tail = onto[t] THEN new[t] ELSE tail
    /\ pc' = [pc EXCEPT ![t] = "pb_len"]
    /\ UNCHANGED <<head, len, next, prev, inner, nAlloc, retired, resv, freed,
                   locals, meta>>

\* self.len.fetch_add(1); break; the guard is dropped
PbLen(t) ==
    /\ pc[t] = "pb_len"
    /\ len' = FetchAdd(len)
    /\ Return(t, "push_back", inner[new[t]])
    /\ UNCHANGED <<head, tail, next, prev, inner, nAlloc, retired, freed>>

\* ------------------------------------------------------------ push_front
PushFrontInvoke(t) ==
    /\ Enter(t, "pf_load_head")
    /\ LinkBoxed(t, nAlloc)
    /\ UNCHANGED <<head, tail, len, next, prev, retired, resv, freed, onto, nxt, data>>

\* let head = guard.protect(&self.head)
PfLoadHead(t) ==
    /\ pc[t] = "pf_load_head"
    /\ onto' = [onto EXCEPT ![t] = head]
    /\ pc' = [pc EXCEPT ![t] = "pf_load_prev"]
    /\ UNCHANGED <<shared, new, nxt, data, meta>>

\* let prev = guard.protect(&onto.prev)
PfLoadPrev(t) ==
    /\ pc[t] = "pf_load_prev"
    /\ \E v \in LoadPtr(prev, onto[t]) :
          /\ nxt' = [nxt EXCEPT ![t] = v]
          /\ pc' = [pc EXCEPT ![t] = IF v # Null THEN "pf_help" ELSE "pf_cas_prev"]
    /\ UNCHANGED <<shared, new, onto, data, meta>>

\* prev is not null: self.head.compare_exchange(onto, prev); false
PfHelp(t) ==
    /\ pc[t] = "pf_help"
    /\ head' = IF head = onto[t] THEN nxt[t] ELSE head
    /\ pc' = [pc EXCEPT ![t] = "pf_load_head"]
    /\ UNCHANGED <<tail, len, next, prev, inner, nAlloc, retired, resv, freed,
                   locals, meta>>

\* onto.prev.compare_exchange(null, new)
PfCasPrev(t) ==
    /\ pc[t] = "pf_cas_prev"
    /\ \/ /\ CasCanSucceed(prev, onto[t], Null)
          /\ prev' = [prev EXCEPT ![onto[t]] = new[t]]
          /\ pc' = [pc EXCEPT ![t] = "pf_store_next"]
       \/ /\ CasCanFail(prev, onto[t], Null)
          /\ prev' = prev
          /\ pc' = [pc EXCEPT ![t] = "pf_load_head"]
    /\ UNCHANGED <<head, tail, len, next, inner, nAlloc, retired, resv, freed,
                   locals, meta>>

\* new.next.store(onto)
PfStoreNext(t) ==
    /\ pc[t] = "pf_store_next"
    /\ next' = [next EXCEPT ![new[t]] = onto[t]]
    /\ pc' = [pc EXCEPT ![t] = "pf_cas_head"]
    /\ UNCHANGED <<head, tail, len, prev, inner, nAlloc, retired, resv, freed,
                   locals, meta>>

\* self.head.compare_exchange(onto, new); true
PfCasHead(t) ==
    /\ pc[t] = "pf_cas_head"
    /\ head' = IF head = onto[t] THEN new[t] ELSE head
    /\ pc' = [pc EXCEPT ![t] = "pf_len"]
    /\ UNCHANGED <<tail, len, next, prev, inner, nAlloc, retired, resv, freed,
                   locals, meta>>

\* self.len.fetch_add(1); break; the guard is dropped
PfLen(t) ==
    /\ pc[t] = "pf_len"
    /\ len' = FetchAdd(len)
    /\ Return(t, "push_front", inner[new[t]])
    /\ UNCHANGED <<head, tail, next, prev, inner, nAlloc, retired, freed>>

\* ------------------------------------------------------------- pop_front
\* pop_front: let guard = self.collector.enter()
PopFrontInvoke(t) ==
    /\ Enter(t, "pop_load_head")
    /\ UNCHANGED <<shared, locals>>

\* let head = guard.protect(&self.head)
PopLoadHead(t) ==
    /\ pc[t] = "pop_load_head"
    /\ onto' = [onto EXCEPT ![t] = head]
    /\ pc' = [pc EXCEPT ![t] = "pop_load_next"]
    /\ UNCHANGED <<shared, new, nxt, data, meta>>

\* let next = guard.protect(&head.next), read as non-null
PopLoadNext(t) ==
    /\ pc[t] = "pop_load_next"
    /\ \E v \in LoadPtr(next, onto[t]) \ {Null} :
          /\ nxt' = [nxt EXCEPT ![t] = v]
          /\ pc' = [pc EXCEPT ![t] = "pop_cas_head"]
    /\ UNCHANGED <<shared, new, onto, data, meta>>

\* PopEmpty with the counter decremented on the empty path as well
PopEmptySubLen(t) ==
    /\ pc[t] = "pop_load_next"
    /\ Null \in LoadPtr(next, onto[t])
    /\ len' = FetchSub(len)
    /\ Return(t, "pop_front", None)
    /\ UNCHANGED <<head, tail, next, prev, inner, nAlloc, retired, freed>>

\* let next = guard.protect(&head.next), read as null: Ok(None) is returned
PopEmpty(t) ==
    /\ pc[t] = "pop_load_next"
    /\ Null \in LoadPtr(next, onto[t])
    /\ Return(t, "pop_front", None)
    /\ UNCHANGED <<head, tail, len, next, prev, inner, nAlloc, retired, freed>>

\* self.head.compare_exchange(head, next): Err(()) retries, Ok goes on
PopCasHead(t) ==
    /\ pc[t] = "pop_cas_head"
    /\ IF head = onto[t]
       THEN /\ head' = nxt[t]
            /\ pc' = [pc EXCEPT ![t] = "pop_load_tail"]
       ELSE /\ head' = head
            /\ pc' = [pc EXCEPT ![t] = "pop_load_head"]
    /\ UNCHANGED <<tail, len, next, prev, inner, nAlloc, retired, resv, freed,
                   locals, meta>>

\* let tail = guard.protect(&self.tail);
\* if head == tail { self.tail.compare_exchange(tail, next) }
\* The load and the compare_exchange are two steps; the local tail equals
\* the local head exactly when the thread is at pop_cas_tail.
PopLoadTail(t) ==
    /\ pc[t] = "pop_load_tail"
    /\ pc' = [pc EXCEPT ![t] = IF tail = onto[t] THEN "pop_cas_tail" ELSE "pop_consume"]
    /\ UNCHANGED <<shared, locals, meta>>

PopCasTail(t) ==
    /\ pc[t] = "pop_cas_tail"
    /\ tail' = IF tail = onto[t] THEN nxt[t] ELSE tail
    /\ pc' = [pc EXCEPT ![t] = "pop_consume"]
    /\ UNCHANGED <<head, len, next, prev, inner, nAlloc, retired, resv, freed,
                   locals, meta>>

\* consume_and_retire(next): let data = ptr::read(&(*ptr).inner);
\* self.collector.retire(ptr, reclaim::boxed)
ConsumeAndRetire(t) ==
    /\ pc[t] = "pop_consume"
    /\ \E v \in ReadInner(nxt[t]) : data' = [data EXCEPT ![t] = v]
    /\ retired' = [retired EXCEPT ![nxt[t]] = @ + 1]
    /\ resv' = [resv EXCEPT ![nxt[t]] = Active]
    /\ pc' = [pc EXCEPT ![t] = "pop_len"]
    /\ UNCHANGED <<head, tail, len, next, prev, inner, nAlloc, freed,
                   new, onto, nxt, meta>>

\* self.len.fetch_sub(1); return Some(data); the guard is dropped
PopLen(t) ==
    /\ pc[t] = "pop_len"
    /\ len' = FetchSub(len)
    /\ Return(t, "pop_front", data[t])
    /\ UNCHANGED <<head, tail, next, prev, inner, nAlloc, retired, freed>>

\* ----------------------------------------------------------- reclamation
\* The collector runs reclaim::boxed, the destructor registered by
\* collector.retire, on a retired node.  seize delays it until every guard
\* that was active when the node was retired has been dropped; guards
\* entered later do not delay it.
Reclaim(n) ==
    /\ n \in Allocated
    /\ retired[n] > 0
    /\ n \notin freed
    /\ resv[n] = {}
    /\ freed' = freed \cup {n}
    /\ UNCHANGED <<head, tail, len, next, prev, inner, nAlloc, retired, resv,
                   pc, locals, meta>>

\* ------------------------------------------------------------------ Next
PushBack(t) ==
    \/ PushBackInvoke(t)
    \/ PbLoadTail(t)
    \/ PbLoadNext(t)
    \/ PbHelp(t)
    \/ PbCasNext(t)
    \/ PbStorePrev(t)
    \/ PbCasTail(t)
    \/ PbLen(t)

PushFront(t) ==
    \/ PushFrontInvoke(t)
    \/ PfLoadHead(t)
    \/ PfLoadPrev(t)
    \/ PfHelp(t)
    \/ PfCasPrev(t)
    \/ PfStoreNext(t)
    \/ PfCasHead(t)
    \/ PfLen(t)

PopFront(t) ==
    \/ PopFrontInvoke(t)
    \/ PopLoadHead(t)
    \/ PopLoadNext(t)
    \/ PopEmpty(t)
    \/ PopCasHead(t)
    \/ PopLoadTail(t)
    \/ PopCasTail(t)
    \/ ConsumeAndRetire(t)
    \/ PopLen(t)

ListStep == \E t \in Threads : PushBack(t) \/ PushFront(t) \/ PopFront(t)

CollectorStep == \E n \in Nodes : Reclaim(n)

Next == ListStep \/ CollectorStep

Spec == Init /\ [][Next]_vars

\* The collector defers every reclamation beyond the end of the run (seize
\* frees a batch only once it is full).
NextDeferred == ListStep

SpecDeferred == Init /\ [][NextDeferred]_vars

\* Producers and one consumer: the last thread only calls pop_front, the
\* others only call push_back.
Consumer == NumThreads
Producers == Threads \ {Consumer}

ProducerInvoke(t) ==
    /\ EnterWithin(t, "pb_load_tail", MaxQueueOps)
    /\ nAlloc + 1 \in Nodes
    /\ LinkBoxed(t, nAlloc)
    /\ UNCHANGED <<head, tail, len, next, prev, retired, resv, freed, onto, nxt, data>>

ConsumerInvoke(t) ==
    /\ EnterWithin(t, "pop_load_head", MaxQueueOps)
    /\ UNCHANGED <<shared, locals>>

Producer(t) ==
    \/ ProducerInvoke(t)
    \/ PbLoadTail(t)
    \/ PbLoadNext(t)
    \/ PbHelp(t)
    \/ PbCasNext(t)
    \/ PbStorePrev(t)
    \/ PbCasTail(t)
    \/ PbLen(t)

ConsumerOp(t) ==
    \/ ConsumerInvoke(t)
    \/ PopLoadHead(t)
    \/ PopLoadNext(t)
    \/ PopEmpty(t)
    \/ PopCasHead(t)
    \/ PopLoadTail(t)
    \/ PopCasTail(t)
    \/ ConsumeAndRetire(t)
    \/ PopLen(t)

QueueStep == (\E t \in Producers : Producer(t)) \/ ConsumerOp(Consumer)

NextQueue == QueueStep \/ CollectorStep

SpecQueue == Init /\ [][NextQueue]_vars

\* the same runs with every reclamation deferred beyond the end of the run
SpecQueueDeferred == Init /\ [][QueueStep]_vars

\* Every thread with a pending step is scheduled: a thread inside an
\* operation eventually takes its next step.
Step(t) ==
    \/ PbLoadTail(t) \/ PbLoadNext(t) \/ PbHelp(t) \/ PbCasNext(t)
    \/ PbStorePrev(t) \/ PbCasTail(t) \/ PbLen(t)
    \/ PfLoadHead(t) \/ PfLoadPrev(t) \/ PfHelp(t) \/ PfCasPrev(t)
    \/ PfStoreNext(t) \/ PfCasHead(t) \/ PfLen(t)
    \/ PopLoadHead(t) \/ PopLoadNext(t) \/ PopEmpty(t) \/ PopCasHead(t)
    \/ PopLoadTail(t) \/ PopCasTail(t) \/ ConsumeAndRetire(t) \/ PopLen(t)

FairSpec == Spec /\ \A t \in Threads : WF_vars(Step(t))

FairSpecDeferred == SpecDeferred /\ \A t \in Threads : WF_vars(Step(t))

\* ------------------------------------------------- views of the history
IsPush(e) == e.op \in {"push_back", "push_front"}
IsPop(e) == e.op = "pop_front"
HistIdx == 1..Len(hist)
\* the values returned by the pops among the first k completed operations
ReturnedBefore(k) == {hist[i].val : i \in {j \in 1..k : IsPop(hist[j]) /\ hist[j].val # None}}
\* the values whose push is among the first k completed operations
PushedBefore(k) == {hist[i].val : i \in {j \in 1..k : IsPush(hist[j])}}
NumPushes == Cardinality({i \in HistIdx : IsPush(hist[i])})
NumPops == Cardinality({i \in HistIdx : IsPop(hist[i]) /\ hist[i].val # None})
Quiescent == \A t \in Threads : pc[t] = "idle"
\* the history is op repeated n times followed by pop_front calls only
PushesThenPops(op, n) ==
    /\ n <= Len(hist)
    /\ \A i \in HistIdx : IF i <= n THEN hist[i].op = op ELSE IsPop(hist[i])
PushFrontInFlight ==
    \E t \in Threads : pc[t] \in {"pf_load_head", "pf_load_prev", "pf_help",
                                  "pf_cas_prev", "pf_store_next", "pf_cas_head", "pf_len"}
\* only push_back and pop_front have been invoked
OnlyPushBackAndPop ==
    /\ ~PushFrontInFlight
    /\ \A i \in HistIdx : hist[i].op # "push_front"

\* the nodes reachable from S by next and prev links
RECURSIVE LinkClosure(_)
LinkClosure(S) ==
    LET T == S \cup (({next[m] : m \in S} \cup {prev[m] : m \in S}) \ {Null})
    IN IF T = S THEN S ELSE LinkClosure(T)
\* n is the value of head, of tail, or of a link of a node reachable from them
Published(n) ==
    \/ head = n
    \/ tail = n
    \/ \E m \in LinkClosure({head, tail}) : next[m] = n \/ prev[m] = n

\* the node the next step of thread t dereferences (Null: none)
DerefTarget(t) ==
    CASE pc[t] \in {"pb_load_next", "pb_cas_next", "pf_load_prev", "pf_cas_prev",
                    "pop_load_next"} -> onto[t]
      [] pc[t] \in {"pb_store_prev", "pf_store_next"} -> new[t]
      [] pc[t] = "pop_consume" -> nxt[t]
      [] OTHER -> Null

\* ------------------------------------------------------------------ C1
\* C1: in a sequential run on a fresh list, push_back(v1..vn) followed by
\* pop_front calls returns v1..vn in that order, and every further
\* pop_front returns empty.
C1_PushBackFifo ==
    \A n \in 0..Len(hist) :
        (~overlap /\ PushesThenPops("push_back", n)) =>
            \A i \in HistIdx : i > n =>
                hist[i].val = (IF i - n <= n THEN hist[i - n].val ELSE None)

\* ------------------------------------------------------------------ C2
\* C2: in a sequential run on a fresh list, k push_front calls followed
\* by pop_front calls return the pushed values in reverse push order, and
\* every further pop_front returns empty.
C2_PushFrontLifo ==
    \A n \in 0..Len(hist) :
        (~overlap /\ PushesThenPops("push_front", n)) =>
            \A i \in HistIdx : i > n =>
                hist[i].val = (IF i - n <= n THEN hist[n + 1 - (i - n)].val ELSE None)

\* ------------------------------------------------------------------ C3
\* C3: with only push_back producers and pop_front consumers, under every
\* interleaving, each value a pop_front returns was pushed, no value is
\* returned twice, and once a pop_front that started after all the pushes
\* has returned empty and no operation is in flight, the returned values
\* are exactly the pushed values.
C3_NoLostNoDuplicate ==
    OnlyPushBackAndPop =>
        /\ \A i \in HistIdx : (IsPop(hist[i]) /\ hist[i].val # None) =>
              /\ hist[i].val \in 1..(nAlloc - 1)
              /\ \A j \in HistIdx : (j # i /\ IsPop(hist[j])) => hist[j].val # hist[i].val
        /\ (/\ Quiescent
            /\ \E i \in HistIdx :
                  /\ IsPop(hist[i]) /\ hist[i].val = None
                  /\ \A j \in HistIdx : IsPush(hist[j]) => j <= hist[i].inv)
           => ReturnedBefore(Len(hist)) = PushedBefore(Len(hist))

\* ------------------------------------------------------------------ C4
\* C4: no thread dereferences a node the collector has already freed.
C4_NoUseAfterFree ==
    \A t \in Threads : DerefTarget(t) # Null => DerefTarget(t) \notin freed

\* ------------------------------------------------------------------ C5
\* C5: each node is handed to consume_and_retire at most once.
C5_RetiredAtMostOnce ==
    \A n \in Nodes : retired[n] <= 1

\* ------------------------------------------------------------------ C6
\* the values already unlinked by a pop_front that has not returned yet
\* (its compare_exchange on head succeeded)
TakenInFlight ==
    {inner[nxt[t]] : t \in {u \in Threads : pc[u] \in {"pop_load_tail", "pop_cas_tail",
                                                       "pop_consume"}}}
    \cup {data[t] : t \in {u \in Threads : pc[u] = "pop_len"}}

\* C6: a pop_front never returns empty while a value whose push completed
\* before the pop_front started has not been returned by any pop_front.
\* Stated of the state right after the empty pop_front returned (it is the
\* last completed operation); a value a concurrent pop_front has already
\* unlinked counts as returned.
C6_EmptyOnlyWhenEmpty ==
    LET i == Len(hist)
    IN (i >= 1 /\ IsPop(hist[i]) /\ hist[i].val = None) =>
          PushedBefore(hist[i].inv) \subseteq (ReturnedBefore(i) \cup TakenInFlight)

\* ------------------------------------------------------------------ C7
\* C7: with no operation in flight, len() is the number of completed
\* pushes minus the number of pops that returned a value, and len() is
\* zero exactly when every pushed value has been returned by a pop_front.
C7_LenAtRest ==
    Quiescent =>
        /\ NumPushes >= NumPops
        /\ len = Usize(NumPushes - NumPops)
        /\ (len = Zero64) <=> (PushedBefore(Len(hist)) \subseteq ReturnedBefore(Len(hist)))

\* ------------------------------------------------------------------ C8
\* C8: under fair scheduling every invoked operation eventually returns.
C8_EveryOperationReturns ==
    \A t \in Threads : (pc[t] # "idle") ~> (pc[t] = "idle")

\* ------------------------------------------------------------------ C9
\* C9: while no push has been invoked, every pop_front returns empty and
\* leaves the list as constructed: head and tail are the sentinel, its
\* links are null, len is 0 and no node is retired.
C9_PopOnFreshList ==
    nAlloc = 1 =>
        /\ head = Sentinel /\ tail = Sentinel
        /\ next[Sentinel] = Null /\ prev[Sentinel] = Null
        /\ len = Zero64
        /\ \A n \in Nodes : retired[n] = 0
        /\ \A i \in HistIdx : hist[i].val = None

\* a pop_front has returned on a list no push was ever invoked on
C9_Witness ==
    /\ nAlloc = 1
    /\ Len(hist) >= 1
    /\ hist[1].op = "pop_front"

\* ------------------------------------------------------------------ C10
\* C10: when pop_front is about to retire a node, the node is neither the
\* value of head or tail nor of a link of a node reachable from them.
C10_RetiredIsUnpublished ==
    \A t \in Threads : pc[t] = "pop_consume" => ~Published(nxt[t])

\* ---------------------------------------------- views of the link structure
\* the nodes on the next chain starting at n, n included; following stops
\* at a null next or at a node already visited
RECURSIVE NextChainFrom(_, _)
NextChainFrom(n, seen) ==
    IF n = Null \/ n \in seen THEN seen
    ELSE NextChainFrom(next[n], seen \cup {n})
NextChain(n) == NextChainFrom(n, {})
\* following next from n terminates (meets no cycle)
RECURSIVE NextTerminatesFrom(_, _)
NextTerminatesFrom(n, seen) ==
    IF n = Null THEN TRUE
    ELSE IF n \in seen THEN FALSE
    ELSE NextTerminatesFrom(next[n], seen \cup {n})
NextTerminates(n) == NextTerminatesFrom(n, {})
\* the nodes with a null next on the next chain from n
ChainEnds(n) == {m \in NextChain(n) : next[m] = Null}
\* thread t is in push_back after its compare_exchange on onto.next succeeded
LinkedBack(t) == pc[t] \in {"pb_store_prev", "pb_cas_tail", "pb_len"}
\* thread t is in push_front after its compare_exchange on onto.prev succeeded
LinkedFront(t) == pc[t] \in {"pf_store_next", "pf_cas_head", "pf_len"}

\* ------------------------------------------------------------------ C11
\* C11: no pop_front extracts its return value from the sentinel allocated
\* by new(), whose payload slot was never filled.
C11_SentinelNeverRead ==
    \A t \in Threads : pc[t] = "pop_consume" => nxt[t] # Sentinel

\* ------------------------------------------------------------------ C12
\* C12: once the prev field of a node holds a non-null reference it never
\* afterwards holds a different value.
C12_PrevWriteOnce ==
    [][\A n \in Nodes : (n \notin freed /\ prev[n] # Null) => prev'[n] = prev[n]]_vars

\* ------------------------------------------------------------------ C13
\* C13: a newly linked node is never observable with its own link unset:
\* while the node a push_back has installed in onto.next is published its
\* prev is onto, and while the node a push_front has installed in
\* onto.prev is published its next is onto.
C13_LinkedNodeComplete ==
    \A t \in Threads :
        /\ (LinkedBack(t) /\ Published(new[t])) => prev[new[t]] = onto[t]
        /\ (LinkedFront(t) /\ Published(new[t])) => next[new[t]] = onto[t]

\* ------------------------------------------------------------------ C14
\* C14: the node with a null next is reachable from tail by next links in
\* every reachable state, and every change of tail moves it from a node to
\* that node's current next successor.
C14_TailNeverLeads ==
    /\ [](NextTerminates(tail))
    /\ [][tail' # tail => tail' = next[tail]]_vars

\* ------------------------------------------------------------------ C15
\* C15: following next from head and following next from tail both
\* terminate, and at the same node with a null next.
C15_SingleChain ==
    /\ NextTerminates(head)
    /\ NextTerminates(tail)
    /\ ChainEnds(head) = ChainEnds(tail)

\* ------------------------------------------------------------------ C16
\* C16: with no operation in flight, every node b that follows a node a on
\* the next chain from head has prev = a.
C16_DoublyLinkedAtRest ==
    Quiescent =>
        \A a \in NextChain(head) : next[a] # Null => prev[next[a]] = a

\* ------------------------------------------------------------------ C17
\* C17: with no operation in flight, the node referenced by tail has a
\* null next.
C17_TailExactAtRest ==
    Quiescent => next[tail] = Null

\* ------------------------------------------------------------------ C18
\* C18: the fetch_sub of pop_front is never applied to a counter that is
\* 0, so len() never wraps.
C18_LenNeverUnderflows ==
    /\ \A t \in Threads : pc[t] = "pop_len" => len # Zero64
    /\ len[NumLimbs] = 0

\* ------------------------------------------------------------------ C19
\* C19: the next field of a node changes only from null to a non-null
\* node.
C19_NextWriteOnce ==
    [][\A n \in Nodes : (n \notin freed /\ next'[n] # next[n]) =>
           (next[n] = Null /\ next'[n] # Null)]_vars

\* ------------------------------------------------------------------ C20
\* the pop_front calls were made by one thread: none overlaps another
OneConsumer ==
    /\ Cardinality({t \in Threads : pc[t] \in {"pop_load_head", "pop_load_next",
           "pop_cas_head", "pop_load_tail", "pop_cas_tail", "pop_consume", "pop_len"}}) <= 1
    /\ \A p \in HistIdx : \A q \in HistIdx :
          (p < q /\ IsPop(hist[p]) /\ IsPop(hist[q])) => hist[q].inv >= p

\* C20: with push_back producers and one pop_front consumer, if
\* push_back(a) returned before push_back(b) was invoked (as for two
\* pushes of one producer), the consumer never receives a after b.
C20_ProducerOrder ==
    (OnlyPushBackAndPop /\ OneConsumer) =>
        \A i \in HistIdx : \A j \in HistIdx :
            (/\ hist[i].op = "push_back" /\ hist[j].op = "push_back"
             /\ hist[j].inv >= i)
            => ~ \E p \in HistIdx : \E q \in HistIdx :
                    /\ p < q
                    /\ IsPop(hist[p]) /\ IsPop(hist[q])
                    /\ hist[p].val = hist[j].val
                    /\ hist[q].val = hist[i].val

====
